---- MODULE Spec2Model ----
(***************************************************************************)
(* Model of the trip planner: src/AItripplanner.py (the itinerary pipeline *)
(* with its preference store) and src/tripplanner.py (the free-text trip   *)
(* request).                                                               *)
(*                                                                         *)
(* Text is a sequence of tokens.  A token is one character of JSON         *)
(* punctuation, one backtick, one whitespace character, or a word (a run   *)
(* of other characters that the code never looks inside).                  *)
(***************************************************************************)
EXTENDS Integers, Sequences, FiniteSets, TLC

VARIABLES collection, call, result_dict, ret, recorded, trip, digests

vars == <<collection, call, result_dict, ret, recorded, trip, digests>>

----------------------------------------------------------------------------
(* Tokens *)

Q  == "\""
\* one backtick character
BT == "BACKTICK"
SP == " "
NL == "\n"
JSONWORD == "json"

Whitespace == {SP, NL}

\* the two markers clean_json_output removes
FenceJson == <<BT, BT, BT, JSONWORD>>
Fence == <<BT, BT, BT>>

\* number literals of the JSON texts
NumberTokens == {"4.5", "3"}

----------------------------------------------------------------------------
(* JSON values: every value is a record of the same shape, so that any two *)
(* values can be compared.  t is the type; s the content of a string or    *)
(* the literal of a number or constant; kids the members of an object      *)
(* (k the key) or the elements of an array (k empty).                      *)

JStr(s) == [t |-> "str", s |-> s, kids |-> <<>>]
JNum(n) == [t |-> "num", s |-> <<n>>, kids |-> <<>>]
JNull == [t |-> "null", s |-> <<>>, kids |-> <<>>]
JBool(b) == [t |-> "bool", s |-> <<b>>, kids |-> <<>>]
JArr(elems) == [t |-> "arr", s |-> <<>>,
                kids |-> [i \in 1..Len(elems) |-> [k |-> <<>>, v |-> elems[i]]]]
JObj(members) == [t |-> "obj", s |-> <<>>, kids |-> members]
Member(key, val) == [k |-> <<key>>, v |-> val]

\* what a failed parse returns
NoParse == [ok |-> FALSE, v |-> JNull, i |-> 0]

\* str.strip(): leading and trailing whitespace removed
Strip(s) ==
    LET keep == {i \in 1..Len(s) : s[i] \notin Whitespace}
    IN  IF keep = {} THEN <<>>
        ELSE SubSeq(s, CHOOSE i \in keep : \A j \in keep : i <= j,
                       CHOOSE i \in keep : \A j \in keep : j <= i)

\* does pat occur in s at position p
MatchAt(s, p, pat) ==
    /\ p + Len(pat) - 1 <= Len(s)
    /\ \A j \in 1..Len(pat) : s[p + j - 1] = pat[j]

\* the least element of a non-empty set of positions
Least(ps) == CHOOSE i \in ps : \A j \in ps : i <= j

\* str.replace(pat, ""): every non-overlapping occurrence, left to right
RECURSIVE RemoveFrom(_, _, _)
RemoveFrom(s, p, pat) ==
    LET hits == {q \in p..Len(s) : MatchAt(s, q, pat)}
    IN  IF hits = {} THEN SubSeq(s, p, Len(s))
        ELSE SubSeq(s, p, Least(hits) - 1)
             \o RemoveFrom(s, Least(hits) + Len(pat), pat)

RemoveAll(s, pat) == RemoveFrom(s, 1, pat)

clean_json_output(output) ==
    RemoveAll(RemoveAll(Strip(output), FenceJson), Fence)

----------------------------------------------------------------------------
(* json.loads *)

\* the first position from i on that holds no whitespace
RECURSIVE SkipWs(_, _)
SkipWs(s, i) ==
    IF i <= Len(s) /\ s[i] \in Whitespace THEN SkipWs(s, i + 1) ELSE i

\* the position of the first Q from i on, or 0; a raw newline before it is
\* a control character, which the strict decoder rejects
RECURSIVE ClosingQuote(_, _)
ClosingQuote(s, i) ==
    IF i > Len(s) \/ s[i] = NL THEN 0
    ELSE IF s[i] = Q THEN i
    ELSE ClosingQuote(s, i + 1)

\* a string starts at s[i] = Q and runs to the next Q
ParseString(s, i) ==
    LET j == ClosingQuote(s, i + 1)
    IN  IF j = 0 THEN NoParse
        ELSE [ok |-> TRUE, v |-> JStr(SubSeq(s, i + 1, j - 1)), i |-> j + 1]

RECURSIVE ParseValue(_, _), ParseMembers(_, _, _), ParseElements(_, _, _)

ParseValue(s, i0) ==
    LET i == SkipWs(s, i0)
    IN  IF i > Len(s) THEN NoParse
        ELSE IF s[i] = Q THEN ParseString(s, i)
        ELSE IF s[i] \in NumberTokens
             THEN [ok |-> TRUE, v |-> JNum(s[i]), i |-> i + 1]
        ELSE IF s[i] = "null" THEN [ok |-> TRUE, v |-> JNull, i |-> i + 1]
        ELSE IF s[i] \in {"true", "false"}
             THEN [ok |-> TRUE, v |-> JBool(s[i]), i |-> i + 1]
        ELSE IF s[i] = "{"
             THEN LET j == SkipWs(s, i + 1)
                  IN  IF j <= Len(s) /\ s[j] = "}"
                      THEN [ok |-> TRUE, v |-> JObj(<<>>), i |-> j + 1]
                      ELSE ParseMembers(s, j, <<>>)
        ELSE IF s[i] = "["
             THEN LET j == SkipWs(s, i + 1)
                  IN  IF j <= Len(s) /\ s[j] = "]"
                      THEN [ok |-> TRUE, v |-> JArr(<<>>), i |-> j + 1]
                      ELSE ParseElements(s, j, <<>>)
        ELSE NoParse

\* "key" : value, then "," and another member, or "}"
ParseMembers(s, i, acc) ==
    IF i > Len(s) \/ s[i] # Q THEN NoParse
    ELSE LET key == ParseString(s, i)
         IN  IF ~key.ok THEN NoParse
             ELSE LET c == SkipWs(s, key.i)
                  IN  IF c > Len(s) \/ s[c] # ":" THEN NoParse
                      ELSE LET val == ParseValue(s, c + 1)
                           IN  IF ~val.ok THEN NoParse
                               ELSE LET e == SkipWs(s, val.i)
                                        got == Append(acc, [k |-> key.v.s, v |-> val.v])
                                    IN  IF e > Len(s) THEN NoParse
                                        ELSE IF s[e] = "}"
                                             THEN [ok |-> TRUE, v |-> JObj(got), i |-> e + 1]
                                        ELSE IF s[e] = ","
                                             THEN ParseMembers(s, SkipWs(s, e + 1), got)
                                        ELSE NoParse

\* value, then "," and another element, or "]"
ParseElements(s, i, acc) ==
    LET val == ParseValue(s, i)
    IN  IF ~val.ok THEN NoParse
        ELSE LET e == SkipWs(s, val.i)
                 got == Append(acc, val.v)
             IN  IF e > Len(s) THEN NoParse
                 ELSE IF s[e] = "]" THEN [ok |-> TRUE, v |-> JArr(got), i |-> e + 1]
                 ELSE IF s[e] = "," THEN ParseElements(s, e + 1, got)
                 ELSE NoParse

\* json.loads(text): one value, then nothing but whitespace; ok = FALSE is
\* json.JSONDecodeError
json_loads(text) ==
    LET r == ParseValue(text, 1)
    IN  IF r.ok /\ SkipWs(text, r.i) > Len(text) THEN r ELSE NoParse

\* re.sub(FenceJson at a line start | Fence at a line end, "", s) under
\* re.MULTILINE: at each position the first alternative is tried first
FenceAt(s, p) ==
    \/ (p = 1 \/ s[p - 1] = NL) /\ MatchAt(s, p, FenceJson)
    \/ MatchAt(s, p, Fence) /\ (p + 3 > Len(s) \/ s[p + 3] = NL)

RECURSIVE FenceSub(_, _)
FenceSub(s, p) ==
    LET hits == {q \in p..Len(s) : FenceAt(s, q)}
    IN  IF hits = {} THEN SubSeq(s, p, Len(s))
        ELSE LET q == Least(hits)
                 n == IF (q = 1 \/ s[q - 1] = NL) /\ MatchAt(s, q, FenceJson)
                      THEN 4 ELSE 3
             IN  SubSeq(s, p, q - 1) \o FenceSub(s, q + n)

\* ensure_dict(obj) for a str: strict parse, else the fence regex and a
\* second strict parse, whose JSONDecodeError leaves the function
ensure_dict(obj) ==
    LET strict == json_loads(obj)
    IN  IF strict.ok THEN strict
        ELSE json_loads(Strip(FenceSub(Strip(obj), 1)))

----------------------------------------------------------------------------
(* json.dumps and the texts a model can answer with *)

RECURSIVE Serialize(_, _, _), SerializeKids(_, _, _, _, _)

\* the text of value v with the given item and key separators
Serialize(v, itemSep, keySep) ==
    IF v.t = "str" THEN <<Q>> \o v.s \o <<Q>>
    ELSE IF v.t = "null" THEN <<"null">>
    ELSE IF v.t \in {"num", "bool"} THEN v.s
    ELSE IF v.t = "arr"
         THEN <<"[">> \o SerializeKids(v.kids, 1, FALSE, itemSep, keySep) \o <<"]">>
    ELSE <<"{">> \o SerializeKids(v.kids, 1, TRUE, itemSep, keySep) \o <<"}">>

SerializeKids(kids, i, keyed, itemSep, keySep) ==
    IF i > Len(kids) THEN <<>>
    ELSE (IF i > 1 THEN itemSep ELSE <<>>)
         \o (IF keyed THEN <<Q>> \o kids[i].k \o <<Q>> \o keySep ELSE <<>>)
         \o Serialize(kids[i].v, itemSep, keySep)
         \o SerializeKids(kids, i + 1, keyed, itemSep, keySep)

\* json.dumps(obj) with the default separators ", " and ": "
json_dumps(v) == Serialize(v, <<",", SP>>, <<":", SP>>)

\* the same value written without spaces
Compact(v) == Serialize(v, <<",">>, <<":">>)

\* text wrapped in a leading fence-json line and a trailing fence line
Fenced(t) == FenceJson \o <<NL>> \o t \o <<NL>> \o Fence

----------------------------------------------------------------------------
(* The schema: pydantic models validated in lax mode *)

HasKey(obj, key) == \E i \in 1..Len(obj.kids) : obj.kids[i].k = <<key>>

\* a dict keeps the last value given for a key
Get(obj, key) ==
    LET is == {i \in 1..Len(obj.kids) : obj.kids[i].k = <<key>>}
    IN  obj.kids[CHOOSE i \in is : \A j \in is : j <= i].v

\* a required str field: present and a string
ReqStr(obj, key) == HasKey(obj, key) /\ Get(obj, key).t = "str"

\* Optional[str] = None
OptStr(obj, key) == HasKey(obj, key) => Get(obj, key).t \in {"str", "null"}

IsStr(v) == v.t = "str"

\* List[str]
ListOfStr(v) == v.t = "arr" /\ \A i \in 1..Len(v.kids) : IsStr(v.kids[i].v)

\* Optional[float]: a number, a bool, or a string that reads as a number
IsFloat(v) ==
    \/ v.t \in {"num", "bool"}
    \/ v.t = "str" /\ Len(v.s) = 1 /\ v.s[1] \in NumberTokens

Activity(v) ==
    /\ v.t = "obj"
    /\ ReqStr(v, "name")
    /\ ReqStr(v, "location")
    /\ ReqStr(v, "description")
    /\ ReqStr(v, "date")
    /\ OptStr(v, "cuisine")
    /\ ReqStr(v, "why_its_suitable")
    /\ (HasKey(v, "reviews") =>
           Get(v, "reviews").t = "null" \/ ListOfStr(Get(v, "reviews")))
    /\ (HasKey(v, "rating") =>
           Get(v, "rating").t = "null" \/ IsFloat(Get(v, "rating")))

AirlineOption(v) ==
    /\ v.t = "obj"
    /\ ReqStr(v, "airline")
    /\ ReqStr(v, "flight_number")
    /\ ReqStr(v, "departure")
    /\ ReqStr(v, "arrival")
    /\ ReqStr(v, "price")

\* List[Activity]
ListOfActivity(v) == v.t = "arr" /\ \A i \in 1..Len(v.kids) : Activity(v.kids[i].v)

\* List[AirlineOption]
ListOfAirlineOption(v) ==
    v.t = "arr" /\ \A i \in 1..Len(v.kids) : AirlineOption(v.kids[i].v)

\* variant of DayPlan: the lists may be empty (conlist without min_length)
DayPlanAnyLength(v) ==
    /\ v.t = "obj"
    /\ ReqStr(v, "date")
    /\ HasKey(v, "activities") /\ ListOfActivity(Get(v, "activities"))
    /\ HasKey(v, "restaurants") /\ ListOfStr(Get(v, "restaurants"))
    /\ (HasKey(v, "flight") =>
           Get(v, "flight").t = "null" \/ ListOfAirlineOption(Get(v, "flight")))

DayPlan(v) ==
    /\ v.t = "obj"
    /\ ReqStr(v, "date")
    /\ HasKey(v, "activities")
    /\ ListOfActivity(Get(v, "activities"))
    /\ Len(Get(v, "activities").kids) >= 1
    /\ HasKey(v, "restaurants")
    /\ ListOfStr(Get(v, "restaurants"))
    /\ Len(Get(v, "restaurants").kids) >= 1
    /\ (HasKey(v, "flight") =>
           Get(v, "flight").t = "null" \/ ListOfAirlineOption(Get(v, "flight")))

\* List[DayPlan]
ListOfDayPlan(v) == v.t = "arr" /\ \A i \in 1..Len(v.kids) : DayPlan(v.kids[i].v)

\* Itinerary(**result_dict) for a dict
Itinerary(v) ==
    /\ ReqStr(v, "name")
    /\ HasKey(v, "day_plans") /\ ListOfDayPlan(Get(v, "day_plans"))
    /\ ReqStr(v, "hotel")

----------------------------------------------------------------------------
(* The answers of the hosted model: the texts crew.kickoff can return.     *)
(* Each follows the schema of the task's expected_output, or departs from  *)
(* it in one place.                                                        *)

\* obj without the member key
Without(obj, key) ==
    JObj(SelectSeq(obj.kids, LAMBDA m : m.k # <<key>>))

\* obj with the value of member key replaced by val
With(obj, key, val) ==
    JObj([i \in 1..Len(obj.kids) |->
            IF obj.kids[i].k = <<key>> THEN Member(key, val) ELSE obj.kids[i]])

ActivityMin ==
    JObj(<<Member("name", JStr(<<"Louvre">>)),
           Member("location", JStr(<<"Paris">>)),
           Member("description", JStr(<<"museum">>)),
           Member("date", JStr(<<"2025-10-01">>)),
           Member("why_its_suitable", JStr(<<"art">>))>>)

ActivityRich ==
    JObj(<<Member("name", JStr(<<"Trattoria">>)),
           Member("location", JStr(<<"Paris">>)),
           Member("description", JStr(<<"dinner">>)),
           Member("date", JStr(<<"2025-10-01">>)),
           Member("cuisine", JStr(<<"Italian">>)),
           Member("why_its_suitable", JStr(<<"likes", SP, "pasta">>)),
           Member("reviews", JArr(<<JStr(<<"great">>)>>)),
           Member("rating", JNum("4.5"))>>)

FlightOption ==
    JObj(<<Member("airline", JStr(<<"Delta">>)),
           Member("flight_number", JStr(<<"DL264">>)),
           Member("departure", JStr(<<"08:00">>)),
           Member("arrival", JStr(<<"20:00">>)),
           Member("price", JStr(<<"$650">>))>>)

DayMin ==
    JObj(<<Member("date", JStr(<<"2025-10-01">>)),
           Member("activities", JArr(<<ActivityMin>>)),
           Member("restaurants", JArr(<<JStr(<<"Bistro">>)>>))>>)

DayRich ==
    JObj(<<Member("date", JStr(<<"2025-10-01">>)),
           Member("activities", JArr(<<ActivityRich>>)),
           Member("restaurants", JArr(<<JStr(<<"Bistro">>)>>)),
           Member("flight", JArr(<<FlightOption>>))>>)

ItineraryMin ==
    JObj(<<Member("name", JStr(<<"Paris">>)),
           Member("day_plans", JArr(<<DayMin>>)),
           Member("hotel", JStr(<<"Ritz">>))>>)

ItineraryRich ==
    JObj(<<Member("name", JStr(<<"Paris">>)),
           Member("day_plans", JArr(<<DayRich>>)),
           Member("hotel", JStr(<<"Ritz">>))>>)

\* a valid itinerary whose name holds a fence marker
ItineraryFenceInName ==
    With(ItineraryMin, "name", JStr(<<BT, BT, BT, "Paris">>))

\* one day-plan in place of DayMin
ItineraryOfDay(day) == With(ItineraryMin, "day_plans", JArr(<<day>>))

\* answers that are JSON but no valid Itinerary
ZeroActivities == ItineraryOfDay(With(DayMin, "activities", JArr(<<>>)))
ZeroRestaurants == ItineraryOfDay(With(DayMin, "restaurants", JArr(<<>>)))
MissingHotel == Without(ItineraryMin, "hotel")
MissingDayDate == ItineraryOfDay(Without(DayMin, "date"))
MissingActivityField ==
    ItineraryOfDay(With(DayMin, "activities",
                        JArr(<<Without(ActivityMin, "why_its_suitable")>>)))
MissingFlightPrice ==
    ItineraryOfDay(With(DayRich, "flight", JArr(<<Without(FlightOption, "price")>>)))
NameIsNumber == With(ItineraryMin, "name", JNum("3"))
RestaurantIsNumber ==
    ItineraryOfDay(With(DayMin, "restaurants", JArr(<<JNum("3")>>)))
ActivityNameIsNumber ==
    ItineraryOfDay(With(DayMin, "activities",
                        JArr(<<With(ActivityMin, "name", JNum("3"))>>)))
FlightPriceIsNumber ==
    ItineraryOfDay(With(DayRich, "flight",
                        JArr(<<With(FlightOption, "price", JNum("3"))>>)))
ActivitiesIsObject == ItineraryOfDay(With(DayMin, "activities", ActivityMin))

\* plain prose, no JSON
Prose == <<"Here", SP, "is", SP, "your", SP, "trip", SP, "to", SP, "Paris">>

\* the names of the well-formed JSON itinerary texts
WellFormedNames == {"itinerary", "itinerary_rich", "itinerary_fence_in_name"}

\* the names of the JSON texts that are no valid Itinerary
InvalidNames ==
    {"zero_activities", "zero_restaurants", "missing_hotel", "missing_day_date",
     "missing_activity_field", "missing_flight_price", "name_is_number",
     "restaurant_is_number", "activities_is_object", "activity_name_is_number",
     "flight_price_is_number", "array"}

\* prose, bare or in a fence, prose around a fenced itinerary, an answer
\* cut short
BrokenNames == {"prose", "prose_in_fence", "prose_then_fenced", "cut_short"}

\* the text of each name
PlainText(name) ==
    CASE name = "itinerary" -> Compact(ItineraryMin)
      [] name = "itinerary_rich" -> json_dumps(ItineraryRich)
      [] name = "itinerary_fence_in_name" -> Compact(ItineraryFenceInName)
      [] name = "zero_activities" -> Compact(ZeroActivities)
      [] name = "zero_restaurants" -> Compact(ZeroRestaurants)
      [] name = "missing_hotel" -> Compact(MissingHotel)
      [] name = "missing_day_date" -> Compact(MissingDayDate)
      [] name = "missing_activity_field" -> Compact(MissingActivityField)
      [] name = "missing_flight_price" -> Compact(MissingFlightPrice)
      [] name = "name_is_number" -> Compact(NameIsNumber)
      [] name = "restaurant_is_number" -> Compact(RestaurantIsNumber)
      [] name = "activities_is_object" -> Compact(ActivitiesIsObject)
      [] name = "activity_name_is_number" -> Compact(ActivityNameIsNumber)
      [] name = "flight_price_is_number" -> Compact(FlightPriceIsNumber)
      [] name = "array" -> Compact(JArr(<<>>))
      [] name = "prose" -> Prose
      [] name = "prose_in_fence" -> Fenced(Prose)
      [] name = "prose_then_fenced" -> Prose \o <<NL>> \o Fenced(Compact(ItineraryMin))
      [] name = "cut_short" ->
            SubSeq(Compact(ItineraryMin), 1, Len(Compact(ItineraryMin)) - 1)

\* The answers crew.kickoff returns in the model: each text as it is, and
\* the well-formed ones also inside a fence.  The state names an answer; its
\* text is ModelText of it.
Answers ==
    {[text |-> n, fenced |-> FALSE] :
        n \in WellFormedNames \cup InvalidNames \cup BrokenNames}
    \cup {[text |-> n, fenced |-> TRUE] : n \in WellFormedNames}

NoAnswer == [text |-> "", fenced |-> FALSE]

ModelText(answer) ==
    IF answer.fenced THEN Fenced(PlainText(answer.text)) ELSE PlainText(answer.text)

----------------------------------------------------------------------------
(* The preference store: the embedder and the user_preferences collection *)

Users == {"u1", "u2"}

\* the fields of the form
Origins == {"New York, JFK"}
Destinations == {"Paris"}
Durations == {"3 days"}
StartDates == {"2025-10-01"}
Preferences == {"museums", "Museums"}

\* query_text of generate_itinerary: the f-string over the five fields
QueryText(origin, destination, trip_duration, start_date, user_preferences) ==
    <<origin, " to ", destination, ", ", trip_duration, " starting ",
      start_date, ", prefs=", user_preferences>>

\* the query texts of direct log_user_query and get_user_preferences calls:
\* those of the form, and one whose hash is that of another
Queries ==
    {QueryText(o, d, n, s, p) :
        o \in Origins, d \in Destinations, n \in Durations, s \in StartDates,
        p \in Preferences \cup {"food"}}

\* the embedder lowercases its input: texts that differ in case only have
\* one embedding.  A vector is modelled by one coordinate.
WordVector(w) ==
    CASE w \in {"museums", "Museums"} -> 1
      [] w = "food" -> 5
      [] OTHER -> 0

\* embedder.encode([text])[0].tolist()
RECURSIVE Embed(_)
Embed(text) ==
    IF text = <<>> THEN 0 ELSE WordVector(Head(text)) + Embed(Tail(text))

\* hash(str): different texts can have one hash ("museums" and "food" stand
\* for such a pair); equal texts always have
WordHash(w) ==
    CASE w \in {"museums", "food"} -> 1
      [] w = "Museums" -> 2
      [] OTHER -> 0

RECURSIVE Hash(_)
Hash(text) ==
    IF text = <<>> THEN 0 ELSE WordHash(Head(text)) + Hash(Tail(text))

\* squared L2 distance, the collection's default metric
Distance(a, b) == (a - b) * (a - b)

\* variant of EntryId: the id leaves the user out
EntryIdOfQueryOnly(user_id, query) == <<"", "_", Hash(query)>>

\* f"{user_id}_{hash(query)}"
EntryId(user_id, query) == <<user_id, "_", Hash(query)>>

\* variant of CollectionAdd: an existing id is overwritten (an upsert)
CollectionUpsert(coll, entry) ==
    {e \in coll : e.id # entry.id} \cup {entry}

\* collection.add of one entry: an id the collection already holds is
\* skipped, the stored entry stays as it is
CollectionAdd(coll, entry) ==
    IF \E e \in coll : e.id = entry.id THEN coll ELSE coll \cup {entry}

\* the sequences of n distinct members of set S
Arrangements(S, n) ==
    {r \in [1..n -> S] : \A i, j \in 1..n : r[i] = r[j] => i = j}

\* r lists the nearest Len(r) entries of M to embedding, nearest first
NearestFirst(r, M, embedding) ==
    /\ \A i, j \in 1..Len(r) :
          i < j => Distance(r[i].embedding, embedding) <= Distance(r[j].embedding, embedding)
    /\ \A e \in M : (\A i \in 1..Len(r) : r[i] # e) =>
          \A i \in 1..Len(r) :
              Distance(r[i].embedding, embedding) <= Distance(e.embedding, embedding)

Min(a, b) == IF a <= b THEN a ELSE b

\* variant of CollectionQuery: the where filter is left out
CollectionQueryUnfiltered(coll, embedding, n_results, user_id) ==
    {r \in Arrangements(coll, Min(n_results, Cardinality(coll))) :
        NearestFirst(r, coll, embedding)}

\* variant of CollectionQuery: any n_results of the user's entries, in any order
CollectionQueryUnranked(coll, embedding, n_results, user_id) ==
    LET M == {e \in coll : e.metadata.user_id = user_id}
    IN  Arrangements(M, Min(n_results, Cardinality(M)))

\* collection.query(query_embeddings=[embedding], n_results, where={"user_id":
\* user_id}): the entries it can return for the one query embedding.  Among
\* entries at equal distance the index is free to choose.
CollectionQuery(coll, embedding, n_results, user_id) ==
    LET M == {e \in coll : e.metadata.user_id = user_id}
    IN  {r \in Arrangements(M, Min(n_results, Cardinality(M))) :
            NearestFirst(r, M, embedding)}

\* the entry log_user_query builds; an empty structured_output (None, or an
\* empty string) is left out of the metadata
NewEntry(user_id, query, structured_output) ==
    [id |-> EntryId(user_id, query),
     embedding |-> Embed(query),
     document |-> query,
     metadata |-> [user_id |-> user_id, structured_output |-> structured_output]]

log_user_query(coll, user_id, query, structured_output) ==
    CollectionAdd(coll, NewEntry(user_id, query, structured_output))

Separator == <<" | ">>

\* " | ".join(docs)
RECURSIVE Join(_)
Join(docs) ==
    IF docs = <<>> THEN <<>>
    ELSE IF Len(docs) = 1 THEN docs[1]
    ELSE docs[1] \o Separator \o Join(Tail(docs))

Sentinel == <<"No past preferences found.">>

\* results["documents"]: one list of document texts per query embedding
Documents(r) == <<[i \in 1..Len(r) |-> r[i].document]>>

\* what get_user_preferences returns when the query gave the entries r
PreferencesText(r) ==
    IF Documents(r) # <<>> THEN Join(Documents(r)[1]) ELSE Sentinel

\* top_k=3
DefaultTopK == 3

\* the values get_user_preferences(user_id, new_query, top_k) can return
get_user_preferences(coll, user_id, new_query, top_k) ==
    {PreferencesText(r) : r \in CollectionQuery(coll, Embed(new_query), top_k, user_id)}

----------------------------------------------------------------------------
(* generate_itinerary of AItripplanner *)

\* the emoji of the output texts, each written as a word
WARN == "WARNING-SIGN"
PLANE == "AIRPLANE"
CALENDAR == "CALENDAR"
STAR == "STAR"
ARROW == "RIGHT-ARROW"

RECURSIVE Flatten(_)
Flatten(parts) ==
    IF parts = <<>> THEN <<>> ELSE Head(parts) \o Flatten(Tail(parts))

\* str of a validated Optional[float]
FloatText(v) ==
    IF v.t = "null" THEN "None"
    ELSE IF v.t = "bool" THEN (IF v.s[1] = "true" THEN "1.0" ELSE "0.0")
    ELSE IF v.s[1] = "3" THEN "3.0"
    ELSE v.s[1]

FlightLine(f) ==
    <<"- ">> \o Get(f, "airline").s \o <<" ">> \o Get(f, "flight_number").s
    \o <<" | ">> \o Get(f, "departure").s \o <<" ", ARROW, " ">>
    \o Get(f, "arrival").s \o <<" | ">> \o Get(f, "price").s \o <<NL>>

ActivityLine(act) ==
    <<"- ">> \o Get(act, "name").s \o <<" (">> \o Get(act, "location").s
    \o <<") ", STAR, " ">>
    \o <<IF HasKey(act, "rating") THEN FloatText(Get(act, "rating")) ELSE "None">>
    \o <<NL, "  ">> \o Get(act, "description").s \o <<NL>>

DayText(day) ==
    <<"#### ", CALENDAR, " ">> \o Get(day, "date").s \o <<NL>>
    \o (IF HasKey(day, "flight") /\ Get(day, "flight").kids # <<>>
        THEN <<"**", PLANE, " Flight Options:**", NL>>
             \o Flatten([i \in 1..Len(Get(day, "flight").kids) |->
                            FlightLine(Get(day, "flight").kids[i].v)])
        ELSE <<>>)
    \o <<NL, "**Activities:**", NL>>
    \o Flatten([i \in 1..Len(Get(day, "activities").kids) |->
                   ActivityLine(Get(day, "activities").kids[i].v)])
    \o <<NL, "**Restaurants:**", NL>>
    \o Flatten([i \in 1..Len(Get(day, "restaurants").kids) |->
                   <<"- ">> \o Get(day, "restaurants").kids[i].v.s \o <<NL>>])
    \o <<NL, "---", NL>>

\* the Markdown of a validated itinerary
Render(itinerary) ==
    <<"### ", PLANE, " ">> \o Get(itinerary, "name").s
    \o <<NL, NL, "**Hotel:** ">> \o Get(itinerary, "hotel").s \o <<NL, NL>>
    \o Flatten([i \in 1..Len(Get(itinerary, "day_plans").kids) |->
                   DayText(Get(itinerary, "day_plans").kids[i].v)])

\* variant of ErrorText: the text says nothing of an error
ErrorTextUnmarked(message) == <<WARN, " Could not generate itinerary.">>

\* f"(warning sign) Could not generate itinerary. Error: {str(e)}"
ErrorText(message) ==
    <<WARN, " Could not generate itinerary. ", "Error", ": ">> \o message

\* str(e) of the exceptions
IndexReadError == <<"index query failed">>
IndexWriteError == <<"index add failed">>
UpstreamError == <<"upstream call failed">>
JSONDecodeError == <<"Expecting value">>
TypeError == <<"argument after ** must be a mapping">>
ValidationError == <<"validation error for Itinerary">>

\* the embedding and the index query either raise or give a value
RecallOutcomes(coll, user_id, query) ==
    {[raised |-> TRUE, value |-> IndexReadError]}
    \cup {[raised |-> FALSE, value |-> v] :
             v \in get_user_preferences(coll, user_id, query, DefaultTopK)}

\* crew.kickoff either raises (value is str(e)) or gives an answer
KickoffOutcomes ==
    {[raised |-> TRUE, value |-> UpstreamError]}
    \cup {[raised |-> FALSE, value |-> a] : a \in Answers}

\* crew.kickoff was not reached
NoKick == [raised |-> TRUE, value |-> <<>>]

Raised(message) == [status |-> "raised", value |-> message]
Returned(value) == [status |-> "returned", value |-> value]

\* Lines 200 to 225 for the model text raw_text, up to the call of
\* log_user_query: result_dict, the step that failed with str(e), the
\* structured_output handed to log_user_query and the Markdown
Digest(raw_text) ==
    LET cleaned == clean_json_output(raw_text)
        parsed == ensure_dict(cleaned)
    IN  IF ~parsed.ok
        THEN [result_dict |-> NoParse, failed |-> "normalise",
              error |-> JSONDecodeError, structured_output |-> <<>>, output |-> <<>>]
        ELSE IF parsed.v.t # "obj"
        THEN [result_dict |-> parsed, failed |-> "validate",
              error |-> TypeError, structured_output |-> <<>>, output |-> <<>>]
        ELSE IF ~Itinerary(parsed.v)
        THEN [result_dict |-> parsed, failed |-> "validate",
              error |-> ValidationError, structured_output |-> <<>>, output |-> <<>>]
        ELSE [result_dict |-> parsed, failed |-> "none", error |-> <<>>,
              structured_output |-> json_dumps(parsed.v),
              output |-> Render(parsed.v)]

NoDigest ==
    [result_dict |-> NoParse, failed |-> "invoke", error |-> UpstreamError,
     structured_output |-> <<>>, output |-> <<>>]

\* One call of generate_itinerary, given what its external calls do: the
\* collection after it, result_dict, the step that failed with its message,
\* the user_preferences of the prompt inputs, and how the call ended; d is
\* Digest of the answer's text.  get_user_preferences runs before the try block; all
\* else inside it.
Run(coll, user_id, query_text, user_preferences, recall, kick, record_fails, d) ==
    LET Fail(step, message, rd, prompt) ==
            [collection |-> coll, result_dict |-> rd, failed |-> step,
             error |-> message, prompt |-> prompt,
             ret |-> Returned(ErrorText(message))]
    IN
    IF recall.raised
    THEN [collection |-> coll, result_dict |-> NoParse, failed |-> "recall",
          error |-> recall.value, prompt |-> <<>>, ret |-> Raised(recall.value)]
    ELSE
    LET prompt == recall.value \o Separator \o <<user_preferences>>
    IN
    IF kick.raised THEN Fail("invoke", kick.value, NoParse, prompt)
    ELSE
    IF d.failed # "none" THEN Fail(d.failed, d.error, d.result_dict, prompt)
    ELSE IF record_fails THEN Fail("record", IndexWriteError, d.result_dict, prompt)
    ELSE [collection |-> log_user_query(coll, user_id, query_text, d.structured_output),
          result_dict |-> d.result_dict, failed |-> "none", error |-> <<>>,
          prompt |-> prompt, ret |-> Returned(d.output)]

----------------------------------------------------------------------------
(* The state: the collection, the last call with its arguments, the local  *)
(* result_dict of the last generate_itinerary, and how the call ended.     *)
(* recorded is history: during a get_user_preferences call, the user and   *)
(* query of the log_user_query call that returned just before it, if any.  *)
(* digests holds Digest of every answer's text: it is computed once, in    *)
(* Init, and only read afterwards.                                         *)

\* the most entries the collection holds under Spec
MaxLogged == 1

\* the most entries the collection holds under SpecStore
MaxEntries == 3

\* the largest top_k of a direct get_user_preferences call
MaxTopK == 2

NoCall ==
    [op |-> "none", user_id |-> "", query |-> <<>>, top_k |-> 0, raw |-> NoAnswer,
     failed |-> "none", error |-> <<>>, prompt |-> <<>>,
     structured_output |-> <<>>]

\* no log_user_query call returned just before the call
NoRecord == <<>>

NoTrip == [input |-> <<>>, status |-> "none", value |-> <<>>, days |-> 0]

Init ==
    /\ collection = {}
    /\ call = NoCall
    /\ result_dict = NoParse
    /\ ret = Returned(<<>>)
    /\ recorded = NoRecord
    /\ trip = NoTrip
    /\ digests = [a \in Answers |-> Digest(ModelText(a))]

\* the Generate Itinerary button: generate_itinerary with the form's fields
GenerateItinerary ==
    \E user_id \in Users, origin \in Origins, destination \in Destinations,
       trip_duration \in Durations, start_date \in StartDates,
       user_preferences \in Preferences :
      LET query_text == QueryText(origin, destination, trip_duration,
                                  start_date, user_preferences)
      IN  \E recall \in RecallOutcomes(collection, user_id, query_text) :
          \E kick \in IF recall.raised THEN {NoKick} ELSE KickoffOutcomes :
          \E record_fails \in IF recall.raised \/ kick.raised
                                 \/ digests[kick.value].failed # "none"
                              THEN {FALSE} ELSE BOOLEAN :
            LET d == IF recall.raised \/ kick.raised THEN NoDigest
                     ELSE digests[kick.value]
                run == Run(collection, user_id, query_text, user_preferences,
                           recall, kick, record_fails, d)
            IN  /\ Cardinality(run.collection) <= MaxLogged
                /\ collection' = run.collection
                /\ call' = [op |-> "generate_itinerary", user_id |-> user_id,
                            query |-> query_text, top_k |-> DefaultTopK,
                            raw |-> IF recall.raised \/ kick.raised THEN NoAnswer
                                    ELSE kick.value,
                            failed |-> run.failed, error |-> run.error,
                            prompt |-> run.prompt,
                            structured_output |->
                                IF run.failed \in {"none", "record"}
                                THEN d.structured_output ELSE <<>>]
                /\ result_dict' = run.result_dict
                /\ ret' = run.ret
                /\ recorded' = NoRecord
                /\ UNCHANGED <<trip, digests>>

\* the structured_output arguments of a direct log_user_query call: none, or
\* the dump of an itinerary
StructuredOutputs == {<<>>, json_dumps(ItineraryMin)}

\* log_user_query(user_id, query, structured_output) called on its own; the
\* embedding or the add can raise
LogUserQuery ==
    \E user_id \in Users, query \in Queries,
       structured_output \in StructuredOutputs, fails \in BOOLEAN :
      LET after == IF fails THEN collection
                   ELSE log_user_query(collection, user_id, query, structured_output)
      IN  /\ Cardinality(after) <= MaxEntries
          /\ collection' = after
          /\ call' = [NoCall EXCEPT !.op = "log_user_query", !.user_id = user_id,
                                    !.query = query,
                                    !.structured_output = structured_output,
                                    !.failed = IF fails THEN "record" ELSE "none",
                                    !.error = IF fails THEN IndexWriteError ELSE <<>>]
          /\ result_dict' = NoParse
          /\ ret' = IF fails THEN Raised(IndexWriteError) ELSE Returned(<<>>)
          /\ recorded' = NoRecord
          /\ UNCHANGED <<trip, digests>>

\* get_user_preferences(user_id, new_query, top_k) called on its own; the
\* embedding or the query can raise
GetUserPreferences ==
    \E user_id \in Users, new_query \in Queries, top_k \in 1..MaxTopK :
      \E outcome \in {Raised(IndexReadError)}
                     \cup {Returned(text) :
                             text \in get_user_preferences(collection, user_id,
                                                           new_query, top_k)} :
          /\ call' = [NoCall EXCEPT !.op = "get_user_preferences",
                                    !.user_id = user_id, !.query = new_query,
                                    !.top_k = top_k,
                                    !.failed = IF outcome.status = "raised"
                                               THEN "recall" ELSE "none",
                                    !.error = IF outcome.status = "raised"
                                              THEN IndexReadError ELSE <<>>]
          /\ ret' = outcome
          /\ result_dict' = NoParse
          /\ recorded' = IF call.op = "log_user_query" /\ ret.status = "returned"
                         THEN <<call.user_id, call.query>>
                         ELSE NoRecord
          /\ UNCHANGED <<collection, trip, digests>>

\* the web form of AItripplanner: one generate_itinerary per click
Next == GenerateItinerary

Spec == Init /\ [][Next]_vars

\* the preference store on its own: Record and Recall in any order; no
\* model text is read
InitStore ==
    /\ collection = {}
    /\ call = NoCall
    /\ result_dict = NoParse
    /\ ret = Returned(<<>>)
    /\ recorded = NoRecord
    /\ trip = NoTrip
    /\ digests = <<>>

NextStore == LogUserQuery \/ GetUserPreferences

SpecStore == InitStore /\ [][NextStore]_vars

----------------------------------------------------------------------------
(* tripplanner: a request in free text.  The input is a sequence of tokens: *)
(* the fixed phrases of the two patterns, words, and runs of digits.        *)

\* runs of one or two digits, and their values
DigitWords == {"0", "1", "5", "29", "31"}

IntOf(digits) ==
    CASE digits = "0" -> 0
      [] digits = "1" -> 1
      [] digits = "5" -> 5
      [] digits = "29" -> 29
      [] digits = "31" -> 31

\* runs of letters
LetterWords == {"Paris", "April", "February", "Foo"}

\* \d+ and \d{1,2}
IsDigits(tok) == tok \in DigitWords

\* \w+
IsWord(tok) == tok \in LetterWords \cup DigitWords

\* re.match(trip_pattern, s): 'plan (\d+)-day trip to (\w+)'; what follows
\* the match is ignored
MatchTrip(s) ==
    /\ Len(s) >= 4
    /\ s[1] = "plan "
    /\ IsDigits(s[2])
    /\ s[3] = "-day trip to "
    /\ IsWord(s[4])

\* re.match(date_pattern, s): 'plan (\w+) trip from (\w+ \d{1,2}) to (\w+ \d{1,2})'
MatchDates(s) ==
    /\ Len(s) >= 10
    /\ s[1] = "plan "
    /\ IsWord(s[2])
    /\ s[3] = " trip from "
    /\ IsWord(s[4]) /\ s[5] = " " /\ IsDigits(s[6])
    /\ s[7] = " to "
    /\ IsWord(s[8]) /\ s[9] = " " /\ IsDigits(s[10])

\* %B: the full month names; 0 for any other word
MonthNumber(word) ==
    CASE word = "January" -> 1 [] word = "February" -> 2 [] word = "March" -> 3
      [] word = "April" -> 4 [] word = "May" -> 5 [] word = "June" -> 6
      [] word = "July" -> 7 [] word = "August" -> 8 [] word = "September" -> 9
      [] word = "October" -> 10 [] word = "November" -> 11
      [] word = "December" -> 12 [] OTHER -> 0

\* the days of each month of 1900, the year strptime assumes
DaysInMonth == <<31, 28, 31, 30, 31, 30, 31, 31, 30, 31, 30, 31>>

RECURSIVE DaysBefore(_)
DaysBefore(month) ==
    IF month <= 1 THEN 0 ELSE DaysInMonth[month - 1] + DaysBefore(month - 1)

\* datetime.strptime(word + " " + digits, "%B %d"): ok = FALSE is ValueError;
\* the date is kept as its day of the year 1900
Strptime(word, digits) ==
    IF /\ MonthNumber(word) # 0
       /\ IntOf(digits) >= 1
       /\ IntOf(digits) <= DaysInMonth[MonthNumber(word)]
    THEN [ok |-> TRUE, day_of_year |-> DaysBefore(MonthNumber(word)) + IntOf(digits)]
    ELSE [ok |-> FALSE, day_of_year |-> 0]

\* parse_input(input_string): the tuple it returns, or raised
parse_input(s) ==
    IF MatchTrip(s)
    THEN [raised |-> FALSE, trip_type |-> "trip_days", days |-> IntOf(s[2]),
          destination |-> s[4], start_date |-> 0, end_date |-> 0]
    ELSE IF MatchDates(s)
    THEN IF Strptime(s[4], s[6]).ok /\ Strptime(s[8], s[10]).ok
         THEN [raised |-> FALSE, trip_type |-> "trip_dates", days |-> 0,
               destination |-> s[2],
               start_date |-> Strptime(s[4], s[6]).day_of_year,
               end_date |-> Strptime(s[8], s[10]).day_of_year]
         ELSE [raised |-> TRUE, trip_type |-> "ValueError", days |-> 0,
               destination |-> s[2], start_date |-> 0, end_date |-> 0]
    ELSE [raised |-> FALSE, trip_type |-> "None", days |-> 0,
          destination |-> "", start_date |-> 0, end_date |-> 0]

\* what openai.ChatCompletion.create does: raises, or answers with a text
CompletionOutcomes ==
    {[raised |-> TRUE, value |-> <<"rate limit">>],
     [raised |-> FALSE, value |-> <<"Day 1: ...">>]}

\* generate_itinerary(destination, days, start_date, end_date) of tripplanner
TripItinerary(completion) ==
    IF completion.raised
    THEN <<"Error generating itinerary: ">> \o completion.value
    ELSE completion.value

Sorry == <<"Sorry, I couldn't understand your request.">>

\* generate_trip(input_string): how it ends, with the day count handed to
\* generate_itinerary
generate_trip(s, completion) ==
    LET parsed == parse_input(s)
    IN  IF parsed.raised
        THEN [input |-> s, status |-> "raised", value |-> <<"ValueError">>, days |-> 0]
        ELSE IF parsed.trip_type = "trip_days"
        THEN [input |-> s, status |-> "returned",
              value |-> TripItinerary(completion), days |-> parsed.days]
        ELSE IF parsed.trip_type = "trip_dates"
        THEN [input |-> s, status |-> "returned",
              value |-> TripItinerary(completion),
              days |-> (parsed.end_date - parsed.start_date) + 1]
        ELSE [input |-> s, status |-> "returned", value |-> Sorry, days |-> 0]

\* the input strings of the model: both patterns, with and without text
\* after the match, and texts that match neither
TripInputs ==
    {<<"plan ", n, "-day trip to ", d>> : n \in DigitWords, d \in LetterWords}
    \cup {<<"plan ", d, " trip from ", m1, " ", d1, " to ", m2, " ", d2>> :
            d \in {"Paris"}, m1 \in {"April", "February", "Foo"}, d1 \in DigitWords,
            m2 \in {"April", "February"}, d2 \in DigitWords}
    \cup {<<"plan ", "5", "-day trip to ", "Paris", " please">>,
          <<"Plan ", "5", "-day trip to ", "Paris">>,
          <<"plan ", "Paris", " trip from ", "April", " ", "1">>,
          <<"hello">>, <<>>}

\* the text box of tripplanner: generate_trip with the entered text
GenerateTrip ==
    \E s \in TripInputs, completion \in CompletionOutcomes :
        /\ trip' = generate_trip(s, completion)
        /\ UNCHANGED <<collection, call, result_dict, ret, recorded, digests>>

InitTrip == InitStore

NextTrip == GenerateTrip

SpecTrip == InitTrip /\ [][NextTrip]_vars

----------------------------------------------------------------------------
(* Properties of the preference store, under SpecStore *)

\* the entries recorded with user_id
EntriesOf(user_id) == {e \in collection : e.metadata.user_id = user_id}

\* text holds the document doc
Includes(text, doc) == \E p \in 1..Len(text) : MatchAt(text, p, doc)

\* text is the join of at least lo and at most hi documents out of docs
JoinOfSome(text, docs, lo, hi) ==
    \E n \in lo..hi : \E ds \in [1..n -> docs] : text = Join(ds)

\* the last call was get_user_preferences and it returned
Recalled == call.op = "get_user_preferences" /\ ret.status = "returned"

\* C4: get_user_preferences(u, q, k) returns only document texts of entries
\* recorded with user_id u, never a text that only another user recorded,
\* however near that text is to q.
C4_RecallOnlyOwnDocuments ==
    Recalled =>
        JoinOfSome(ret.value, {e.document : e \in EntriesOf(call.user_id)},
                   0, call.top_k)

\* a recall that returned a text of its user while an entry of another user
\* lay nearer to the query than every entry of the user
C4_Witness ==
    /\ Recalled
    /\ ret.value # <<>>
    /\ \E other \in collection :
          /\ other.metadata.user_id # call.user_id
          /\ \A e \in EntriesOf(call.user_id) :
                Distance(other.embedding, Embed(call.query))
                    < Distance(e.embedding, Embed(call.query))

\* the last call was get_user_preferences(u, q, k), it returned, and
\* log_user_query(u, q, ...) had returned just before it
RecalledAfterRecord ==
    Recalled /\ recorded = <<call.user_id, call.query>>

\* C5 as stated: after log_user_query(u, q, ...), get_user_preferences(u, q, k)
\* with k >= 1 returns a result that includes q's text.
C5_RecallIncludesRecordedQuery ==
    RecalledAfterRecord => Includes(ret.value, call.query)

\* the entries of the call's user, other than the one with the query's text,
\* that lie at distance 0 from the query
AsNearAsQuery ==
    {e \in EntriesOf(call.user_id) :
        /\ e.document # call.query
        /\ Distance(e.embedding, Embed(call.query)) = 0}

\* C5 amended: after log_user_query(u, q, ...), get_user_preferences(u, q, k)
\* with k >= 1 returns a non-empty result of at most k texts of u's entries;
\* it includes q's text whenever the collection holds q's text for u (the
\* add keeps it out only when another text holds the id) and fewer than k
\* other entries of u lie at distance 0 from q.
C5_RecallAfterRecord ==
    RecalledAfterRecord =>
        /\ JoinOfSome(ret.value, {e.document : e \in EntriesOf(call.user_id)},
                      1, call.top_k)
        /\ (/\ \E e \in EntriesOf(call.user_id) : e.document = call.query
            /\ Cardinality(AsNearAsQuery) < call.top_k)
           => Includes(ret.value, call.query)

\* a recall right after the record of its query that returned the query's
\* text and left a farther entry of the user out
C5_Witness ==
    /\ RecalledAfterRecord
    /\ Includes(ret.value, call.query)
    /\ Cardinality(EntriesOf(call.user_id)) > call.top_k
    /\ \E e \in EntriesOf(call.user_id) :
          /\ Distance(e.embedding, Embed(call.query)) > 0
          /\ ~Includes(ret.value, e.document)

\* log_user_query returned in this step
RecordReturns == call'.op = "log_user_query" /\ ret'.status = "returned"

\* C6 as stated: the number of entries grows by one on every log_user_query
\* call, identical user and query or not.
C6_EveryRecordAddsAnEntry ==
    [][RecordReturns => Cardinality(collection') = Cardinality(collection) + 1]_vars

\* C6 amended: log_user_query(u, q, s) that returns adds exactly one entry,
\* with id u_hash(q), document q and metadata u and s, when the collection
\* holds no entry with that id; otherwise it leaves the collection as it was,
\* so repeated calls with one user and one query text leave one entry.
C6_RecordAddsUnlessIdHeld ==
    [][RecordReturns =>
         LET id == <<call'.user_id, "_", Hash(call'.query)>>
         IN  IF \E e \in collection : e.id = id
             THEN collection' = collection
             ELSE collection' = collection \cup
                    {[id |-> id, embedding |-> Embed(call'.query),
                      document |-> call'.query,
                      metadata |-> [user_id |-> call'.user_id,
                                    structured_output |-> call'.structured_output]]}]_vars

\* a log_user_query that returned without storing what it was given: the
\* entry with its id has its user and query text and another structured_output
C6_Witness ==
    /\ call.op = "log_user_query"
    /\ ret.status = "returned"
    /\ \E e \in collection :
          /\ e.id = <<call.user_id, "_", Hash(call.query)>>
          /\ e.document = call.query
          /\ e.metadata.structured_output # call.structured_output

\* C7: get_user_preferences returns the sentinel text when the collection
\* holds no entry of the user, and otherwise the texts of up to k of the
\* user's entries joined with " | ".
C7_SentinelOrJoinedDocuments ==
    Recalled =>
        IF EntriesOf(call.user_id) = {}
        THEN ret.value = Sentinel
        ELSE JoinOfSome(ret.value, {e.document : e \in EntriesOf(call.user_id)},
                        1, call.top_k)

----------------------------------------------------------------------------
(* Properties of generate_itinerary of AItripplanner, under Spec *)

\* the last call was generate_itinerary
Generated == call.op = "generate_itinerary"

\* generate_itinerary ran in this step
Generates == call'.op = "generate_itinerary"

\* the call got the model's answer named text, bare or fenced
Answered(names) == Generated /\ call.raw.text \in names

\* C1: whichever step of generate_itinerary fails (recall, model invocation,
\* normalisation, validation, record), the call returns one text that
\* starts with the warning marker and carries the error message; no
\* exception leaves the call.
C1_EveryFailureReturnsErrorText ==
    Generated /\ call.failed # "none" =>
        /\ ret.status = "returned"
        /\ ret.value = <<WARN, " Could not generate itinerary. ", "Error", ": ">>
                        \o call.error

\* the names of the answers that hold no JSON at all
ProseNames == {"prose", "prose_in_fence"}

\* C2: when the model answers in prose, generate_itinerary returns an error
\* text that contains "Error", renders no itinerary and records nothing.
C2_ProseGivesErrorAndNoRecord ==
    [][Generates /\ call'.raw.text \in ProseNames =>
         /\ ret'.status = "returned"
         /\ \E i \in 1..Len(ret'.value) : ret'.value[i] = "Error"
         /\ ret'.value[1] = WARN
         /\ \A a \in DOMAIN digests :
               digests[a].failed = "none" => ret'.value # digests[a].output
         /\ collection' = collection]_vars

\* a call answered in prose that ended with the error text of the parser
C2_Witness ==
    /\ Answered({"prose"})
    /\ call.failed = "normalise"
    /\ ret.status = "returned"
    /\ Includes(ret.value, JSONDecodeError)

\* C3: for a well-formed JSON object text t, the answer t and the answer
\* that wraps t in a fence both give a result_dict equal to the strict parse
\* of t, also when a string value of t holds fence markers.
C3_FenceMakesNoDifference ==
    Answered(WellFormedNames) =>
        /\ result_dict.ok
        /\ result_dict.v = json_loads(PlainText(call.raw.text)).v

\* the names of the JSON object texts that break the schema: no activity, no
\* restaurant, a required field missing or of the wrong type, in the
\* itinerary, a day plan, an activity or a flight option
SchemaBreakingNames == InvalidNames \ {"array"}

\* C8: an answer that parses but breaks the schema fails the whole request:
\* the error text is returned, nothing is rendered and nothing is recorded.
C8_InvalidItineraryFailsWhole ==
    [][Generates /\ call'.raw.text \in SchemaBreakingNames =>
         /\ call'.failed = "validate"
         /\ ret'.status = "returned"
         /\ ret'.value[1] = WARN
         /\ \E i \in 1..Len(ret'.value) : ret'.value[i] = "Error"
         /\ collection' = collection]_vars

\* a call whose answer parsed to a day plan without activities and ended
\* with the error text of the validation
C8_Witness ==
    /\ Answered({"zero_activities"})
    /\ result_dict.ok
    /\ Get(Get(result_dict.v, "day_plans").kids[1].v, "activities").kids = <<>>
    /\ call.failed = "validate"
    /\ Includes(ret.value, ValidationError)

\* C9 as stated: every generate_itinerary call, whatever its outcome, adds
\* one entry with its user and query text.
C9_RecordOnEveryQuery ==
    [][Generates =>
         /\ Cardinality(collection') = Cardinality(collection) + 1
         /\ \E e \in collection' \ collection :
               /\ e.metadata.user_id = call'.user_id
               /\ e.document = call'.query]_vars

\* C9 amended: generate_itinerary records only after validation succeeded.
\* A call that ends in an error text or an exception leaves the collection
\* as it was; a call that renders an itinerary adds one entry with id
\* u_hash(query text), the query text as document and the user and the dump
\* of the result as metadata, unless the collection holds that id already,
\* and then it leaves the collection as it was.
C9_RecordOnlyAfterValidation ==
    [][Generates =>
         LET id == <<call'.user_id, "_", Hash(call'.query)>>
         IN  IF call'.failed # "none" \/ \E e \in collection : e.id = id
             THEN collection' = collection
             ELSE collection' = collection \cup
                    {[id |-> id, embedding |-> Embed(call'.query),
                      document |-> call'.query,
                      metadata |-> [user_id |-> call'.user_id,
                                    structured_output |-> json_dumps(result_dict'.v)]]}]_vars

\* a call that rendered an itinerary while the collection held its id with
\* the dump of another itinerary
C9_Witness ==
    /\ Generated
    /\ call.failed = "none"
    /\ ret = Returned(Render(result_dict.v))
    /\ \E e \in collection :
          /\ e.id = <<call.user_id, "_", Hash(call.query)>>
          /\ e.metadata.structured_output # json_dumps(result_dict.v)

----------------------------------------------------------------------------
(* Properties of generate_trip of tripplanner, under SpecTrip *)

\* C10: generate_trip never raises: an input that matches neither pattern
\* gives the sorry text, also when month or day words are no valid date;
\* for the dates form the day count is (end - start) + 1.
C10_GenerateTripIsTotal ==
    trip.status # "none" =>
        /\ trip.status = "returned"
        /\ (~MatchTrip(trip.input) /\ ~MatchDates(trip.input)) => trip.value = Sorry
        /\ (~MatchTrip(trip.input) /\ MatchDates(trip.input)) =>
              trip.days = (Strptime(trip.input[8], trip.input[10]).day_of_year
                           - Strptime(trip.input[4], trip.input[6]).day_of_year) + 1

====
